---- MODULE Spec2Model ----
(***************************************************************************)
(* Model of factory_app.py: the PP Products ERP, a Streamlit script whose  *)
(* pages read the QUOTE worksheet with load_data, change one row of the    *)
(* loaded DataFrame and write the whole table back with save_data.         *)
(*                                                                         *)
(* Every browser session runs the script in its own thread; one run is     *)
(*   idle --read--> loaded --cache store--> run --<button>--> save         *)
(*        --ws.clear--> update --ws.update--> uncache                      *)
(*        --load_data.clear--> idle                                        *)
(* (idle --> run at once when st.cache_data holds the table), and runs of  *)
(* different sessions interleave at these remote calls.  A finish and the  *)
(* Warehouse form go through update_inventory first,                       *)
(*   [mail -->] inv_read --get_all_records--> inv_save --ws.clear-->       *)
(*        inv_update --ws.update--> inv_uncache --load_data.clear-->       *)
(* after which the finish saves QUOTE and the form ends its run.           *)
(* SpecTiers applies the three tier tables of the script to requests of   *)
(* the form and of Miss PP, apart from the sessions.                       *)
(*                                                                         *)
(* Units.  Weights are integers in units of 0.1 g (Kg units per kilogram), *)
(* rates are in sen per kilogram (3600 is RM 36.00), prices in tenths of a *)
(* sen (3353805 is RM 3353.805), thickness is in 0.01 mm, width and length *)
(* in mm.  The inputs the specifications draw are chosen so that every     *)
(* division below is exact.                                                *)
(***************************************************************************)
EXTENDS Integers, Sequences, FiniteSets, TLC

(* ------------------------------ bounds -------------------------------- *)
\* quotations created in one behaviour
MaxQuotes == 1
\* the wall clock runs from 0 to MaxNow ticks
MaxNow == 2
\* clock ticks per minute: two creations can fall into the same minute
TicksPerMinute == 2
\* finishes that get as far as update_inventory in one behaviour
MaxAdds == 2
\* quotations created where two of them are needed
MaxIds == 2
\* manual stock adjustments that get as far as update_inventory
MaxAdjusts == 1
\* quotations created where a stale copy is saved over an approval
MaxCreates == 3

Sessions == {"s1", "s2"}

(* ------------------------- program constants -------------------------- *)
Kg == 10 * 1000
TicksPerDay == TicksPerMinute * 60 * 24

RateSample == 3600
RateMid == 2600
RateStandard == 1260
TierSampleKg == 10
TierMidKg == 100
WasteAlertPct == 10
FilmMoldCost == 360000
RunCostPerPc == 620

MinThick == 50
MinWidth == 650
MinLength == 900
MinQty == 1000
ChatWidth == 650
ChatLength == 900
DefaultChatQty == 1000
DefaultChatThick == 50

MANAGERS == {"iris888", "tomy999"}
BossPassword == "boss777"

VARIABLES
  sheet,    \* the QUOTE worksheet: the sequence of its rows
  written,  \* history: the table of the last ws.update that succeeded
  cache,    \* st.cache_data of load_data("QUOTE")
  inv,      \* the INVENTORY worksheet
  now,      \* the wall clock, in ticks
  nextUid,  \* history: number of the next quotation created
  pc,       \* per session: where its script run stands
  q_df,     \* per session: the DataFrame of the run
  op,       \* per session: the button handled by the run, and its outcome
  lq,       \* per session: st.session_state.latest_quote
  i_df,     \* per session: the DataFrame of update_inventory
  calls,    \* history: the calls of update_inventory so far, by caller
  tiers     \* the tier tables of the script applied to requests

vars ==
  <<sheet, written, cache, inv, now, nextUid, pc, q_df, op, lq, i_df, calls, tiers>>

NoQuote == [set |-> FALSE, thick |-> 0, weight |-> 0, rate |-> 0,
            total_price |-> 0, qty |-> 0]

\* prod_desc: the dimensions, and the colours of the print if there is one
Product(th, wd, lg, print_colors) ==
  [th |-> th, wd |-> wd, lg |-> lg, print_colors |-> print_colors]

\* the Product Name field of the Warehouse form left empty
NoName == Product(0, 0, 0, 0)

NoOp == [kind |-> "none", result |-> "", uid |-> 0, clicked |-> 0, i |-> 0,
         pwd |-> "", boss_pwd |-> "", mat_rate |-> 0, qty |-> 0,
         print_colors |-> 0, real_input |-> 0, alert |-> "none",
         product_name |-> NoName, weight_change |-> 0]

NoCalls == [finish |-> 0, adjust |-> 0]

\* no request has been given to the tier tables
NoTiers ==
  [applied |-> FALSE,
   form |-> [th |-> 0, wd |-> 0, lg |-> 0, qty |-> 0],
   chat_a |-> [thick |-> 0, qty |-> 0],
   chat_b |-> [thick |-> 0, qty |-> 0],
   of_form |-> [calc_wgt |-> 0, min_rate |-> 0, suggested_price |-> 0],
   of_a |-> [weight |-> 0, price_rate |-> 0],
   of_b |-> [weight |-> 0, price_rate |-> 0]]

(* --------------------------- pure functions --------------------------- *)

\* datetime.now().strftime('%y%m%d-%H%M'): the clock cut to the minute
FormatDocId(t) == t \div TicksPerMinute

\* datetime.now().strftime("%Y-%m-%d"): a non-empty string, the clock cut
\* to the day; the empty string is <<>>
FormatDate(t) == <<t \div TicksPerDay>>

\* (th * wd * lg * 0.91 * qty) / 1000000, in units of 0.1 g
calc_wgt(th, wd, lg, qty) ==
  (((((th * wd * lg) \div 1000) * 91) \div 10) * qty) \div 100

\* the price floor of the Quote & CRM form
min_rate(calc) ==
  IF calc < TierSampleKg * Kg THEN RateSample
  ELSE IF calc < TierMidKg * Kg THEN RateMid
  ELSE RateStandard

\* suggested_price of the calculator: the tiers are looked at only when
\* calc_wgt > 0
suggested_price(calc) ==
  IF calc > 0
  THEN IF calc < TierSampleKg * Kg THEN RateSample
       ELSE IF calc < TierMidKg * Kg THEN RateMid
       ELSE RateStandard
  ELSE RateStandard

\* mutant of price_rate: the wider tier is tested first, so the tier below
\* 10 kg is never met
price_rate_mid_first(weight) ==
  IF weight < TierMidKg * Kg THEN RateMid
  ELSE IF weight < TierSampleKg * Kg THEN RateSample
  ELSE RateStandard

\* the rate Miss PP quotes at
price_rate(weight) ==
  IF weight < TierSampleKg * Kg THEN RateSample
  ELSE IF weight < TierMidKg * Kg THEN RateMid
  ELSE RateStandard

\* calc_wgt * mat_rate (and weight * price_rate of Miss PP), in tenths of a
\* sen; the rates are multiples of 10 sen
material_total(calc, mat_rate) == (calc * (mat_rate \div 10)) \div 100

\* mutant of printing_cost: the film and mold cost is left out
printing_cost_run_only(print_colors, qty) ==
  IF print_colors > 0 THEN print_colors * RunCostPerPc * qty ELSE 0

\* printing_cost = film_mold_cost + run_cost when print_colors > 0
printing_cost(print_colors, qty) ==
  IF print_colors > 0
  THEN print_colors * FilmMoldCost + print_colors * RunCostPerPc * qty
  ELSE 0

\* grand_total = material_total + printing_cost
grand_total(calc, mat_rate, print_colors, qty) ==
  material_total(calc, mat_rate) + printing_cost(print_colors, qty)

is_boss(boss_pwd) == boss_pwd = BossPassword

\* the Approve button is rendered
CanApprove(pwd, boss_pwd) == (pwd \in MANAGERS) \/ is_boss(boss_pwd)

\* mutant of PriceFloor: the rate is not compared with the minimum
PriceFloorIgnored(calc, mat_rate, boss_pwd) ==
  [can_save |-> TRUE, auth_lvl |-> "Standard"]

\* the price floor check: [can_save, auth_lvl]
PriceFloor(calc, mat_rate, boss_pwd) ==
  IF mat_rate < min_rate(calc)
  THEN IF is_boss(boss_pwd)
       THEN [can_save |-> TRUE, auth_lvl |-> "BOSS_BYPASS"]
       ELSE [can_save |-> FALSE, auth_lvl |-> "Standard"]
  ELSE [can_save |-> TRUE, auth_lvl |-> "Standard"]

\* real_input >= r['Weight']
EnoughInput(real_input, weight) == real_input >= weight

\* real_input and Weight, in units of 0.1 g, of an exact waste of 10 percent
\* whose (waste / real_input) * 100 is 10.000000000000002 in floats:
\* 532.35 over 479.115 kg, 266.175 over 239.5575 kg, 1064.7 over 958.23 kg
WastePctRoundsUp ==
  {<<5323500, 4791150>>, <<2661750, 2395575>>, <<10647000, 9582300>>}

\* the same, where it is below 10 in floats: 295.75 over 266.175 kg and 591.5
\* over 532.35 kg (9.999999999999996), 364 over 327.6 kg (9.999999999999993)
WastePctRoundsDown ==
  {<<2957500, 2661750>>, <<5915000, 5323500>>, <<3640000, 3276000>>}

\* what waste_pct > 10 can be, with waste_pct = (waste / real_input) * 100 if
\* real_input > 0 else 0: away from an exact 10 percent the floats agree
\* with the exact quotient; at an exact 10 percent the rounding decides, one
\* way or the other with the operands, and operands that are in neither
\* table are left open
HighWaste(real_input, weight) ==
  IF real_input <= 0 THEN {FALSE}
  ELSE IF (real_input - weight) * 100 > WasteAlertPct * real_input THEN {TRUE}
  ELSE IF (real_input - weight) * 100 < WasteAlertPct * real_input THEN {FALSE}
  ELSE IF <<real_input, weight>> \in WastePctRoundsUp THEN {TRUE}
  ELSE IF <<real_input, weight>> \in WastePctRoundsDown THEN {FALSE}
  ELSE {TRUE, FALSE}

NewRow(uid, t, product, weight, rate, price, auth) ==
  [uid |-> uid, Doc_ID |-> FormatDocId(t), Product |-> product,
   Weight |-> weight, mat_rate |-> rate, Price |-> price,
   Status |-> "Pending Approval",
   Auth_By |-> auth, Payment_Status |-> "Unpaid", Date_Paid |-> <<>>,
   Input_Weight |-> 0, Waste_Kg |-> 0, Loss_Reason |-> ""]

\* q_df[q_df["Doc_ID"] == doc_id].index[0]
IndexOfDocId(df, doc_id) ==
  LET m == {k \in DOMAIN df : df[k].Doc_ID = doc_id}
  IN CHOOSE k \in m : \A j \in m : k <= j

\* update_inventory(product_name, weight_change, operation) on the DataFrame
\* df it has read: [success, df], with success FALSE where it returns early
ChangeStock(df, product_name, weight_change, operation) ==
  LET match == {k \in DOMAIN df : df[k].Product = product_name} IN
  IF match = {}
  THEN IF operation = "ADD"
       THEN [success |-> TRUE,
             df |-> Append(df, [Product |-> product_name,
                                Current_Weight_kg |-> weight_change])]
       ELSE [success |-> FALSE, df |-> df]
  ELSE
    LET idx == CHOOSE k \in match : \A j \in match : k <= j
        current_w == df[idx].Current_Weight_kg
    IN IF operation = "ADD"
       THEN [success |-> TRUE,
             df |-> [df EXCEPT ![idx].Current_Weight_kg =
                                 current_w + weight_change]]
       ELSE IF operation = "SUBTRACT"
       THEN IF current_w < weight_change
            THEN [success |-> FALSE, df |-> df]
            ELSE [success |-> TRUE,
                  df |-> [df EXCEPT ![idx].Current_Weight_kg =
                                      current_w - weight_change]]
       ELSE [success |-> TRUE, df |-> df]

\* the stock of a product: Current_Weight_kg of its first row, 0 without one
StockOf(df, product_name) ==
  LET match == {k \in DOMAIN df : df[k].Product = product_name}
  IN IF match = {} THEN 0
     ELSE df[CHOOSE k \in match : \A j \in match : k <= j].Current_Weight_kg

(* ------------------------------- Init --------------------------------- *)

Init ==
  /\ sheet = <<>>
  /\ written = <<>>
  /\ cache = [valid |-> FALSE, df |-> <<>>]
  /\ inv = <<>>
  /\ now = 0
  /\ nextUid = 1
  /\ pc = [s \in Sessions |-> "idle"]
  /\ q_df = [s \in Sessions |-> <<>>]
  /\ op = [s \in Sessions |-> NoOp]
  /\ lq = [s \in Sessions |-> NoQuote]
  /\ i_df = [s \in Sessions |-> <<>>]
  /\ calls = NoCalls
  /\ tiers = NoTiers

(* ------------------------------ actions ------------------------------- *)

\* the wall clock advances
Tick ==
  /\ now < MaxNow
  /\ now' = now + 1
  /\ UNCHANGED <<tiers, calls, i_df, sheet, written, cache, inv, nextUid, pc, q_df, op, lq>>

\* the ttl of st.cache_data runs out
CacheExpire ==
  /\ cache.valid
  /\ cache' = [valid |-> FALSE, df |-> <<>>]
  /\ UNCHANGED <<tiers, calls, i_df, sheet, written, inv, now, nextUid, pc, q_df, op, lq>>

\* a script run starts and load_data("QUOTE") finds its entry in
\* st.cache_data
LoadCached(s) ==
  /\ pc[s] = "idle"
  /\ cache.valid
  /\ q_df' = [q_df EXCEPT ![s] = cache.df]
  /\ pc' = [pc EXCEPT ![s] = "run"]
  /\ op' = [op EXCEPT ![s] = NoOp]
  /\ UNCHANGED <<tiers, calls, i_df, sheet, written, cache, inv, now, nextUid, lq>>

\* a script run starts and load_data("QUOTE") finds no entry: it reads the
\* worksheet; api_ok = FALSE is an exception of the worksheet call, which
\* load_data turns into an empty frame
Load(s, api_ok) ==
  /\ pc[s] = "idle"
  /\ ~cache.valid
  /\ q_df' = [q_df EXCEPT ![s] = IF api_ok THEN sheet ELSE <<>>]
  /\ pc' = [pc EXCEPT ![s] = "loaded"]
  /\ op' = [op EXCEPT ![s] = NoOp]
  /\ UNCHANGED <<tiers, calls, i_df, sheet, written, cache, inv, now, nextUid, lq>>

\* st.cache_data stores what load_data returned
CacheStore(s) ==
  /\ pc[s] = "loaded"
  /\ cache' = [valid |-> TRUE, df |-> q_df[s]]
  /\ pc' = [pc EXCEPT ![s] = "run"]
  /\ UNCHANGED <<tiers, calls, i_df, sheet, written, inv, now, nextUid, q_df, op, lq>>

\* the run ends with no button pressed: the page stays on the screen
NoClick(s) ==
  /\ pc[s] = "run"
  /\ pc' = [pc EXCEPT ![s] = "idle"]
  /\ q_df' = [q_df EXCEPT ![s] = <<>>]
  /\ UNCHANGED <<tiers, calls, i_df, sheet, written, cache, inv, now, nextUid, op, lq>>

\* the run ends showing an error or without the button: nothing is saved
EndRun(s, o) ==
  /\ pc' = [pc EXCEPT ![s] = "idle"]
  /\ q_df' = [q_df EXCEPT ![s] = <<>>]
  /\ op' = [op EXCEPT ![s] = o]

\* the run changed its DataFrame to df and enters save_data(df, "QUOTE")
BeginSave(s, df, o) ==
  /\ pc' = [pc EXCEPT ![s] = "save"]
  /\ q_df' = [q_df EXCEPT ![s] = df]
  /\ op' = [op EXCEPT ![s] = o]

\* Quote & CRM: "Finalize Quote"
FinalizeQuote(s, cap, th, wd, lg, qty, mat_rate, print_colors, boss_pwd) ==
  /\ pc[s] = "run"
  /\ nextUid <= cap
  /\ LET calc == calc_wgt(th, wd, lg, qty)
         chk == PriceFloor(calc, mat_rate, boss_pwd)
         o == [NoOp EXCEPT !.kind = "create", !.uid = nextUid,
                           !.mat_rate = mat_rate, !.boss_pwd = boss_pwd,
                           !.qty = qty, !.print_colors = print_colors]
     IN IF chk.can_save
        THEN /\ BeginSave(s, Append(q_df[s],
                   NewRow(nextUid, now, Product(th, wd, lg, print_colors),
                          calc, mat_rate,
                          grand_total(calc, mat_rate, print_colors, qty),
                          chk.auth_lvl)), o)
             /\ nextUid' = nextUid + 1
        ELSE /\ EndRun(s, [o EXCEPT !.result = "PriceBelowFloor"])
             /\ UNCHANGED nextUid
  /\ UNCHANGED <<tiers, calls, i_df, sheet, written, cache, inv, now, lq>>


\* Miss PP: a chat request that parse_sales_request turns into qty and thick
ChatPrompt(s, qty, thick) ==
  /\ pc[s] = "idle"
  /\ LET weight == calc_wgt(thick, ChatWidth, ChatLength, qty)
     IN lq' = [lq EXCEPT ![s] = [set |-> TRUE, thick |-> thick,
                                 weight |-> weight,
                                 rate |-> price_rate(weight),
                                 total_price |->
                                   material_total(weight, price_rate(weight)),
                                 qty |-> qty]]
  /\ UNCHANGED <<tiers, calls, i_df, sheet, written, cache, inv, now, nextUid, pc, q_df, op>>

\* Miss PP: "Save Official Quote"
SaveOfficialQuote(s, cap) ==
  /\ pc[s] = "run"
  /\ lq[s].set
  /\ nextUid <= cap
  /\ BeginSave(s, Append(q_df[s],
        NewRow(nextUid, now, Product(lq[s].thick, ChatWidth, ChatLength, 0),
               lq[s].weight, lq[s].rate, lq[s].total_price, "MISS_PP")),
        [NoOp EXCEPT !.kind = "chat", !.uid = nextUid,
                     !.mat_rate = lq[s].rate, !.qty = lq[s].qty])
  /\ nextUid' = nextUid + 1
  /\ lq' = [lq EXCEPT ![s] = NoQuote]
  /\ UNCHANGED <<tiers, calls, i_df, sheet, written, cache, inv, now>>

\* Quote & CRM: "Approve <Doc_ID>" of row i of the pending rows
Approve(s, i, pwd, boss_pwd) ==
  /\ pc[s] = "run"
  /\ i \in DOMAIN q_df[s]
  /\ q_df[s][i].Status = "Pending Approval"
  /\ LET o == [NoOp EXCEPT !.kind = "approve", !.uid = q_df[s][i].uid,
                           !.clicked = q_df[s][i].uid,
                           !.pwd = pwd, !.boss_pwd = boss_pwd]
     IN IF CanApprove(pwd, boss_pwd)
        THEN BeginSave(s, [q_df[s] EXCEPT ![i].Status = "Approved"], o)
        ELSE EndRun(s, [o EXCEPT !.result = "Unauthorized"])
  /\ UNCHANGED <<tiers, calls, i_df, sheet, written, cache, inv, now, nextUid, lq>>

\* Sales Follow-Up: "Confirm Loss" of row i of the approved rows
MarkLost(s, i, reason) ==
  /\ pc[s] = "run"
  /\ i \in DOMAIN q_df[s]
  /\ q_df[s][i].Status = "Approved"
  /\ LET idx == IndexOfDocId(q_df[s], q_df[s][i].Doc_ID)
     IN BeginSave(s, [q_df[s] EXCEPT ![idx].Status = "Lost",
                                     ![idx].Loss_Reason = reason],
                  [NoOp EXCEPT !.kind = "lost", !.uid = q_df[s][idx].uid,
                               !.clicked = q_df[s][i].uid])
  /\ UNCHANGED <<tiers, calls, i_df, sheet, written, cache, inv, now, nextUid, lq>>

\* Sales Follow-Up: "Production" of row i of the approved rows
StartProduction(s, i) ==
  /\ pc[s] = "run"
  /\ i \in DOMAIN q_df[s]
  /\ q_df[s][i].Status = "Approved"
  /\ LET idx == IndexOfDocId(q_df[s], q_df[s][i].Doc_ID)
     IN BeginSave(s, [q_df[s] EXCEPT ![idx].Status = "In Progress"],
                  [NoOp EXCEPT !.kind = "production", !.uid = q_df[s][idx].uid,
                               !.clicked = q_df[s][i].uid])
  /\ UNCHANGED <<tiers, calls, i_df, sheet, written, cache, inv, now, nextUid, lq>>

\* the handler calls update_inventory(product_name, weight_change, "ADD")
CallUpdateInventory(s, o) ==
  /\ pc' = [pc EXCEPT ![s] = "inv_read"]
  /\ op' = [op EXCEPT ![s] = o]
  /\ UNCHANGED q_df

\* Production: "Finish & Calculate Waste" of row i of the active rows, up to
\* the call of send_waste_alert or, without an alert, of update_inventory.
\* A behaviour has at most MaxAdds finishes that go on to update_inventory,
\* whatever the order and the stock
FinishProduction(s, i, real_input) ==
  /\ pc[s] = "run"
  /\ i \in DOMAIN q_df[s]
  /\ q_df[s][i].Status = "In Progress"
  /\ LET r == q_df[s][i]
         o == [NoOp EXCEPT !.kind = "finish", !.uid = r.uid,
                           !.clicked = r.uid, !.i = i,
                           !.real_input = real_input,
                           !.product_name = r.Product,
                           !.weight_change = r.Weight]
     IN IF EnoughInput(real_input, r.Weight)
        THEN /\ calls.finish < MaxAdds
             /\ calls' = [calls EXCEPT !.finish = @ + 1]
             /\ \E high \in HighWaste(real_input, r.Weight) :
                  IF high
                  THEN /\ pc' = [pc EXCEPT ![s] = "mail"]
                       /\ op' = [op EXCEPT ![s] = [o EXCEPT !.alert = "due"]]
                       /\ UNCHANGED q_df
                  ELSE CallUpdateInventory(s, o)
        ELSE /\ EndRun(s, [o EXCEPT !.result = "InsufficientInput"])
             /\ UNCHANGED calls
  /\ UNCHANGED <<tiers, i_df, sheet, written, cache, inv, now, nextUid, lq>>

\* send_waste_alert: the mail gets out (mail_ok) or an exception is caught
\* and shown; either way the handler goes on to update_inventory
SendWasteAlert(s, mail_ok) ==
  /\ pc[s] = "mail"
  /\ CallUpdateInventory(s, [op[s] EXCEPT !.alert = IF mail_ok THEN "sent"
                                                   ELSE "failed"])
  /\ UNCHANGED <<tiers, calls, i_df, sheet, written, cache, inv, now, nextUid, lq>>

\* Payments: "Confirm Paid" of row i of the unpaid rows
ConfirmPaid(s, i) ==
  /\ pc[s] = "run"
  /\ i \in DOMAIN q_df[s]
  /\ q_df[s][i].Status = "Completed"
  /\ q_df[s][i].Payment_Status # "Paid"
  /\ LET idx == IndexOfDocId(q_df[s], q_df[s][i].Doc_ID)
     IN BeginSave(s, [q_df[s] EXCEPT ![idx].Payment_Status = "Paid",
                                     ![idx].Date_Paid = FormatDate(now)],
                  [NoOp EXCEPT !.kind = "paid", !.uid = q_df[s][idx].uid,
                               !.clicked = q_df[s][i].uid])
  /\ UNCHANGED <<tiers, calls, i_df, sheet, written, cache, inv, now, nextUid, lq>>

\* the weight typed into the manual stock adjustment: that of the smallest
\* order of the form, 266.175 kg
AdjustWeight == calc_wgt(MinThick, MinWidth, MinLength, MinQty)

\* Warehouse: "Update" of the manual stock adjustment, with the product name
\* and the weight (+/-) typed into the form.  A behaviour has at most
\* MaxAdjusts adjustments that go on to update_inventory
WarehouseAdjust(s, p_name, w_adj) ==
  /\ pc[s] = "idle"
  /\ LET o == [NoOp EXCEPT !.kind = "adjust"]
     IN IF p_name # NoName /\ w_adj # 0
        THEN /\ calls.adjust < MaxAdjusts
             /\ calls' = [calls EXCEPT !.adjust = @ + 1]
             /\ CallUpdateInventory(s, [o EXCEPT !.product_name = p_name,
                                                 !.weight_change = w_adj])
        ELSE /\ op' = [op EXCEPT ![s] = [o EXCEPT !.result = "InvalidInput"]]
             /\ UNCHANGED <<pc, q_df, calls>>
  /\ UNCHANGED <<tiers, i_df, sheet, written, cache, inv, now, nextUid, lq>>

\* update_inventory has returned (True, "Updated"): Finish goes on to save
\* the quotation as Completed, the Warehouse form ends its run
AfterInventory(s) ==
  IF op[s].kind = "finish"
  THEN LET i == op[s].i
       IN BeginSave(s, [q_df[s] EXCEPT
                          ![i].Status = "Completed",
                          ![i].Input_Weight = op[s].real_input,
                          ![i].Waste_Kg = op[s].real_input - q_df[s][i].Weight],
                    op[s])
  ELSE EndRun(s, [op[s] EXCEPT !.result = "Updated"])

\* update_inventory: ws.get_all_records() of INVENTORY and the change of the
\* DataFrame; api_ok = FALSE is an exception, which makes it return False:
\* Finish shows the message, the Warehouse form shows nothing
UpdateInventoryRead(s, api_ok) ==
  /\ pc[s] = "inv_read"
  /\ LET res == ChangeStock(inv, op[s].product_name, op[s].weight_change, "ADD")
     IN IF api_ok /\ res.success
        THEN /\ i_df' = [i_df EXCEPT ![s] = res.df]
             /\ pc' = [pc EXCEPT ![s] = "inv_save"]
             /\ UNCHANGED <<q_df, op>>
        ELSE /\ EndRun(s, [op[s] EXCEPT !.result = "InventoryError"])
             /\ UNCHANGED i_df
  /\ UNCHANGED <<tiers, calls, sheet, written, cache, inv, now, nextUid, lq>>

\* save_data(df, "INVENTORY"): ws.clear()
InvSaveClear(s) ==
  /\ pc[s] = "inv_save"
  /\ inv' = <<>>
  /\ pc' = [pc EXCEPT ![s] = "inv_update"]
  /\ UNCHANGED <<tiers, calls, i_df, sheet, written, cache, now, nextUid, q_df, op, lq>>

\* save_data(df, "INVENTORY"): ws.update(header + rows)
InvSaveUpdate(s) ==
  /\ pc[s] = "inv_update"
  /\ inv' = i_df[s]
  /\ pc' = [pc EXCEPT ![s] = "inv_uncache"]
  /\ UNCHANGED <<tiers, calls, i_df, sheet, written, cache, now, nextUid, q_df, op, lq>>

\* save_data(df, "INVENTORY"): load_data.clear(), which drops the entry of
\* QUOTE too; update_inventory returns and the handler goes on
InvClearCache(s) ==
  /\ pc[s] = "inv_uncache"
  /\ cache' = [valid |-> FALSE, df |-> <<>>]
  /\ AfterInventory(s)
  /\ i_df' = [i_df EXCEPT ![s] = <<>>]
  /\ UNCHANGED <<tiers, calls, sheet, written, inv, now, nextUid, lq>>

\* save_data(df, "INVENTORY"): ws.clear() or ws.update() raises; the except
\* branch shows "Save Error", the cache is not cleared, update_inventory
\* returns (True, "Updated") all the same and the handler goes on
InvSaveError(s) ==
  /\ pc[s] \in {"inv_save", "inv_update"}
  /\ AfterInventory(s)
  /\ i_df' = [i_df EXCEPT ![s] = <<>>]
  /\ UNCHANGED <<tiers, calls, sheet, written, cache, inv, now, nextUid, lq>>

\* save_data: ws.clear()
SaveClear(s) ==
  /\ pc[s] = "save"
  /\ sheet' = <<>>
  /\ pc' = [pc EXCEPT ![s] = "update"]
  /\ UNCHANGED <<tiers, calls, i_df, written, cache, inv, now, nextUid, q_df, op, lq>>

\* save_data: ws.update(header + rows)
SaveUpdate(s) ==
  /\ pc[s] = "update"
  /\ sheet' = q_df[s]
  /\ written' = q_df[s]
  /\ pc' = [pc EXCEPT ![s] = "uncache"]
  /\ UNCHANGED <<tiers, calls, i_df, cache, inv, now, nextUid, q_df, op, lq>>

\* save_data: load_data.clear(), then the handler's st.rerun()
ClearCache(s) ==
  /\ pc[s] = "uncache"
  /\ cache' = [valid |-> FALSE, df |-> <<>>]
  /\ pc' = [pc EXCEPT ![s] = "idle"]
  /\ q_df' = [q_df EXCEPT ![s] = <<>>]
  /\ op' = [op EXCEPT ![s] = NoOp]
  /\ UNCHANGED <<tiers, calls, i_df, sheet, written, inv, now, nextUid, lq>>

\* save_data: ws.clear() or ws.update() raises; the except branch shows
\* "Save Error", the cache is not cleared, and the handler goes on to st.rerun()
SaveError(s) ==
  /\ pc[s] \in {"save", "update"}
  /\ pc' = [pc EXCEPT ![s] = "idle"]
  /\ q_df' = [q_df EXCEPT ![s] = <<>>]
  /\ op' = [op EXCEPT ![s] = NoOp]
  /\ UNCHANGED <<tiers, calls, i_df, sheet, written, cache, inv, now, nextUid, lq>>

(* --------------------------- specifications --------------------------- *)

\* the steps of the sessions in SS that create at most cap quotations, with
\* the inputs drawn from the given sets
NextOver(SS, cap, ApiOk, Qtys, Rates, Colors, Boss, ChatQtys, Pwds, Inputs, InvOk, Mail) ==
  \/ Tick
  \/ CacheExpire
  \/ \E s \in SS :
       \/ LoadCached(s)
       \/ \E a \in ApiOk : Load(s, a)
       \/ CacheStore(s)
       \/ NoClick(s)
       \/ \E qty \in Qtys, r \in Rates, c \in Colors, b \in Boss :
            FinalizeQuote(s, cap, MinThick, MinWidth, MinLength, qty, r, c, b)
       \/ \E qty \in ChatQtys : ChatPrompt(s, qty, DefaultChatThick)
       \/ SaveOfficialQuote(s, cap)
       \/ \E i \in 1..cap, p \in Pwds, b \in Boss : Approve(s, i, p, b)
       \/ \E i \in 1..cap : MarkLost(s, i, "Price")
       \/ \E i \in 1..cap : StartProduction(s, i)
       \/ \E i \in 1..cap, x \in Inputs : FinishProduction(s, i, x)
       \/ \E m \in Mail : SendWasteAlert(s, m)
       \/ \E a \in InvOk : UpdateInventoryRead(s, a)
       \/ InvSaveClear(s)
       \/ InvSaveUpdate(s)
       \/ InvClearCache(s)
       \/ \E i \in 1..cap : ConfirmPaid(s, i)
       \/ SaveClear(s)
       \/ SaveUpdate(s)
       \/ ClearCache(s)
       \/ SaveError(s)

\* two sessions working on the same table
Next ==
  NextOver(Sessions, MaxQuotes, {TRUE}, {MinQty}, {RateStandard}, {0},
           {""}, {20}, {"iris888"}, {300 * Kg}, {TRUE}, {TRUE})

Spec == Init /\ [][Next]_vars

\* one session, with every input and every failure of a worksheet call
NextSeq ==
  \/ NextOver({"s1"}, MaxQuotes, {TRUE, FALSE}, {MinQty}, {1000, RateStandard},
              {0}, {"", BossPassword}, {20}, {"wrong", "iris888"},
              {266 * Kg, 2661750, 300 * Kg},
              {TRUE, FALSE}, {TRUE, FALSE})
  \/ InvSaveError("s1")

SpecSeq == Init /\ [][NextSeq]_vars

\* one session creating MaxIds quotations through both creation paths
NextIds ==
  NextOver({"s1"}, MaxIds, {TRUE}, {MinQty}, {RateStandard}, {0},
           {""}, {0, 20}, {"iris888"}, {300 * Kg}, {TRUE}, {TRUE})

SpecIds == Init /\ [][NextIds]_vars

\* one session at the Quote & CRM form: quantities, rates and print colours
NextForm ==
  NextOver({"s1"}, MaxQuotes, {TRUE}, {MinQty, 2000}, {1000, RateStandard},
           {0, 2}, {"", BossPassword}, {20}, {"iris888"}, {300 * Kg}, {TRUE},
           {TRUE})

SpecForm == Init /\ [][NextForm]_vars

\* one session finishing an order of 1800 pcs, 479.115 kg, with 10 % and
\* with more than 10 % of the resin wasted
NextWaste ==
  NextOver({"s1"}, MaxQuotes, {TRUE}, {1800}, {RateStandard}, {0},
           {""}, {20}, {"iris888"}, {5323500, 600 * Kg}, {TRUE},
           {TRUE, FALSE})

SpecWaste == Init /\ [][NextWaste]_vars

\* one session producing orders and adjusting stocks by hand
NextStock ==
  \/ NextOver({"s1"}, MaxQuotes, {TRUE}, {MinQty}, {RateStandard}, {0},
              {""}, {20}, {"iris888"}, {300 * Kg}, {TRUE, FALSE}, {TRUE})
  \/ \E p \in {NoName, Product(MinThick, MinWidth, MinLength, 0)},
        w \in {0 - AdjustWeight, 0, AdjustWeight} :
       WarehouseAdjust("s1", p, w)

SpecStock == Init /\ [][NextStock]_vars

\* two sessions that create and approve quotations, each from the table
\* its run has loaded
NextApprove ==
  \E s \in Sessions :
    \/ LoadCached(s)
    \/ Load(s, TRUE)
    \/ CacheStore(s)
    \/ NoClick(s)
    \/ FinalizeQuote(s, MaxCreates, MinThick, MinWidth, MinLength, MinQty,
                     RateStandard, 0, "")
    \/ \E i \in 1..MaxCreates, p \in {"", "wrong", "iris888", "tomy999"} :
         Approve(s, i, p, "")
    \/ SaveClear(s)
    \/ SaveUpdate(s)
    \/ ClearCache(s)

SpecApprove == Init /\ [][NextApprove]_vars

\* what the Quote & CRM form can hand to its tier tables: th, wd, lg and qty
\* at or above the minimum values of their number_input widgets
FormRequests ==
  {[th |-> MinThick, wd |-> MinWidth, lg |-> MinLength, qty |-> q] :
     q \in {MinQty, 1800, 2000}}

\* what parse_sales_request can hand to the tier table of Miss PP: 0.5 mm and
\* a number of pieces, for weights of 0 kg, 5.3235 kg, 9.5823 kg, 10.647 kg,
\* 53.235 kg, 99.0171 kg, 100.0818 kg, 266.175 kg and 532.35 kg
ChatRequests ==
  {[thick |-> DefaultChatThick, qty |-> q] :
     q \in {0, 20, 36, 40, 200, 372, 376, DefaultChatQty, 2000}}

\* a request of the form and two chat requests are given
InitTiers ==
  /\ sheet = <<>>
  /\ written = <<>>
  /\ cache = [valid |-> FALSE, df |-> <<>>]
  /\ inv = <<>>
  /\ now = 0
  /\ nextUid = 1
  /\ pc = [s \in Sessions |-> "idle"]
  /\ q_df = [s \in Sessions |-> <<>>]
  /\ op = [s \in Sessions |-> NoOp]
  /\ lq = [s \in Sessions |-> NoQuote]
  /\ i_df = [s \in Sessions |-> <<>>]
  /\ calls = NoCalls
  /\ tiers \in {[NoTiers EXCEPT !.form = f, !.chat_a = a, !.chat_b = b] :
                   f \in FormRequests, a \in ChatRequests, b \in ChatRequests}

\* the form computes calc_wgt, suggested_price and min_rate of its request,
\* Miss PP the weight and price_rate of each of its requests
ApplyTiers ==
  /\ ~tiers.applied
  /\ LET f == tiers.form
         calc == calc_wgt(f.th, f.wd, f.lg, f.qty)
         w_a == calc_wgt(tiers.chat_a.thick, ChatWidth, ChatLength,
                         tiers.chat_a.qty)
         w_b == calc_wgt(tiers.chat_b.thick, ChatWidth, ChatLength,
                         tiers.chat_b.qty)
     IN tiers' = [tiers EXCEPT
                    !.applied = TRUE,
                    !.of_form = [calc_wgt |-> calc, min_rate |-> min_rate(calc),
                                 suggested_price |-> suggested_price(calc)],
                    !.of_a = [weight |-> w_a, price_rate |-> price_rate(w_a)],
                    !.of_b = [weight |-> w_b, price_rate |-> price_rate(w_b)]]
  /\ UNCHANGED <<sheet, written, cache, inv, now, nextUid, pc, q_df, op, lq,
                 i_df, calls>>

\* the tier tables applied to the requests the pages can make
SpecTiers == InitTiers /\ [][ApplyTiers]_vars

(* ------------------------------ claims -------------------------------- *)

HasUid(df, u) == \E k \in DOMAIN df : df[k].uid = u
RowOfUid(df, u) == df[CHOOSE k \in DOMAIN df : df[k].uid = u]

\* the states that follow a status in the lifecycle
Later(status) ==
  IF status = "Pending Approval"
  THEN {"Approved", "In Progress", "Completed", "Lost"}
  ELSE IF status = "Approved" THEN {"In Progress", "Completed", "Lost"}
  ELSE IF status = "In Progress" THEN {"Completed"}
  ELSE {}

\* session s completes its ws.update in this step
Commits(s) == pc[s] = "update" /\ pc'[s] = "uncache"

\* session s handles button kind in this step
Clicks(s, kind) == pc[s] = "run" /\ op'[s].kind = kind

\* C1: from one written table to the next, the Status of a quotation stays
\* or moves forward along Pending Approval -> Approved -> In Progress ->
\* Completed or Approved -> Lost, never back.
C1_StatusOnlyForward ==
  [][\A k \in DOMAIN written : \A j \in DOMAIN written' :
       written'[j].uid = written[k].uid =>
         \/ written'[j].Status = written[k].Status
         \/ written'[j].Status \in Later(written[k].Status)]_vars

\* C2: an approve that reaches the store finds the quotation stored as
\* Pending Approval; on any other stored Status it leaves the table as it is.
C2_ApproveOnlyPending ==
  [][\A s \in Sessions :
       (Commits(s) /\ op[s].kind = "approve") =>
         \/ \A k \in DOMAIN written :
              written[k].uid = op[s].uid => written[k].Status = "Pending Approval"
         \/ written' = written]_vars

\* the authorize code or the boss password of a click is one the claim names
Credentialed(o) ==
  o.pwd \in {"iris888", "tomy999"} \/ o.boss_pwd = "boss777"

\* the run of s that handles a click of the given kind ends in this step
Ends(s, kind) == op[s].kind = kind /\ pc[s] # "idle" /\ pc'[s] = "idle"

\* what C3 asks of one step
C3_Step ==
  /\ \A k \in DOMAIN written : \A j \in DOMAIN written' :
       ( /\ written'[j].uid = written[k].uid
         /\ written[k].Status = "Pending Approval"
         /\ written'[j].Status = "Approved" ) =>
       \E s \in Sessions :
          Commits(s) /\ op[s].kind = "approve" /\ Credentialed(op[s])
  /\ \A s \in Sessions :
       Clicks(s, "approve") =>
         IF Credentialed(op'[s])
         THEN pc'[s] = "save"
         ELSE /\ op'[s].result = "Unauthorized"
              /\ pc'[s] = "idle"
              /\ UNCHANGED <<sheet, written>>
  /\ \A s \in Sessions :
       (Ends(s, "approve") /\ Credentialed(op[s])) =>
         /\ HasUid(sheet', op[s].uid)
         /\ RowOfUid(sheet', op[s].uid).Status = "Approved"

\* C3: a stored quotation goes from Pending Approval to Approved only in a
\* step that writes an approve whose authorize code is iris888 or tomy999
\* or whose boss override is boss777; with another code the run ends
\* Unauthorized and the store is untouched; the run of an approve with a
\* good code ends with the quotation stored as Approved.
C3_ApprovalNeedsCredential ==
  [][C3_Step]_vars

\* the minimum rate of a weight tier, as the claim states it
TierFloor(w) ==
  IF w < 10 * Kg THEN 3600 ELSE IF w < 100 * Kg THEN 2600 ELSE 1260

Tables == {sheet, written, cache.df} \cup {q_df[s] : s \in Sessions}

\* C4: every quotation of the Quote & CRM form, in the store or on its way
\* there, has a rate of at least the minimum of its weight tier or carries
\* Auth_By BOSS_BYPASS, which is given only under the boss override; a rate
\* below the minimum without the override ends the run with nothing saved.
C4_PriceFloorOrBypass ==
  /\ \A T \in Tables : \A k \in DOMAIN T :
       T[k].Auth_By # "MISS_PP" =>
         IF T[k].mat_rate >= TierFloor(T[k].Weight)
         THEN T[k].Auth_By = "Standard"
         ELSE T[k].Auth_By = "BOSS_BYPASS"
  /\ \A s \in Sessions :
       (op[s].kind = "create" /\ op[s].result = "") =>
         /\ HasUid(q_df[s], op[s].uid)
         /\ RowOfUid(q_df[s], op[s].uid).mat_rate = op[s].mat_rate
         /\ RowOfUid(q_df[s], op[s].uid).Auth_By = "BOSS_BYPASS"
              => op[s].boss_pwd = "boss777"
  /\ \A s \in Sessions :
       op[s].result = "PriceBelowFloor" =>
         /\ op[s].boss_pwd # "boss777"
         /\ pc[s] = "idle"
         /\ \A T \in Tables : ~HasUid(T, op[s].uid)

\* C4 witness: a quotation below the floor is stored with the bypass marker
C4_Witness ==
  \E k \in DOMAIN sheet :
    /\ sheet[k].Auth_By = "BOSS_BYPASS"
    /\ sheet[k].mat_rate < TierFloor(sheet[k].Weight)

\* C5: no two rows of the QUOTE table have the same Doc_ID.
C5_DocIdsUnique ==
  \A i \in DOMAIN sheet : \A j \in DOMAIN sheet :
    i # j => sheet[i].Doc_ID # sheet[j].Doc_ID

AllFields ==
  {"Doc_ID", "Product", "Weight", "mat_rate", "Price", "Status", "Auth_By",
   "Payment_Status", "Date_Paid", "Input_Weight", "Waste_Kg", "Loss_Reason"}

\* the fields a button writes in the row it acts on
OpFields(kind) ==
  IF kind \in {"approve", "production"} THEN {"Status"}
  ELSE IF kind = "lost" THEN {"Status", "Loss_Reason"}
  ELSE IF kind = "finish" THEN {"Status", "Input_Weight", "Waste_Kg"}
  ELSE IF kind = "paid" THEN {"Payment_Status", "Date_Paid"}
  ELSE {}

\* C6: a completed save keeps every stored row and changes only the fields
\* its own button writes, so what another completed update wrote stays.
C6_NoLostUpdate ==
  [][\A s \in Sessions :
       Commits(s) =>
         \A k \in DOMAIN written : \E j \in DOMAIN written' :
           /\ written'[j].uid = written[k].uid
           /\ \A f \in AllFields :
                \/ written[k].uid = op[s].uid /\ f \in OpFields(op[s].kind)
                \/ written'[j][f] = written[k][f]]_vars

\* C7: a quotation that is in the QUOTE table is in it after every step.
C7_NeverRemoved ==
  [][\A k \in DOMAIN sheet : \E j \in DOMAIN sheet' :
       sheet'[j].uid = sheet[k].uid]_vars

\* the row of the session's DataFrame that the finish handler of this step
\* acts on
FinishRow(s) == RowOfUid(q_df[s], op'[s].uid)

\* the positions of a finish between its click and its save of QUOTE
Finishing == {"mail", "inv_read", "inv_save", "inv_update", "inv_uncache"}

\* the finish of s ends with the given message and changes neither worksheet
FinishRefused(s, msg) ==
  /\ pc'[s] = "idle"
  /\ op'[s].result = msg
  /\ UNCHANGED <<sheet, written, inv>>

\* what C8 asks of one step
C8_Step ==
  /\ \A s \in Sessions :
       Clicks(s, "finish") =>
         /\ FinishRow(s).Status = "In Progress"
         /\ IF op'[s].real_input >= FinishRow(s).Weight
            THEN pc'[s] \in Finishing
            ELSE FinishRefused(s, "InsufficientInput")
  /\ \A s \in Sessions :
       (Ends(s, "finish") /\ op[s].real_input >= op[s].weight_change) =>
         /\ HasUid(sheet', op[s].uid)
         /\ LET r == RowOfUid(sheet', op[s].uid)
            IN /\ r.Status = "Completed"
               /\ r.Input_Weight = op[s].real_input
               /\ r.Waste_Kg = op[s].real_input - r.Weight

\* C8: the run of a finish with input >= target ends with the quotation
\* stored as Completed, with Input_Weight and Waste_Kg = input - target; with
\* input < target the finish is refused (InsufficientInput), in every state
\* alike, with the quotation and the inventory unchanged.
C8_FinishAlwaysCompletes ==
  [][C8_Step]_vars

\* what C9 asks of one step
C9_Step ==
  /\ \A s \in Sessions :
       Clicks(s, "finish") =>
         LET x == op'[s].real_input
             w == FinishRow(s).Weight
         IN (op'[s].alert # "none") <=> (x >= w /\ (x - w) * 100 > 10 * x)
  /\ \A s \in Sessions :
       pc[s] = "mail" =>
         /\ pc'[s] \in {"mail", "inv_read"}
         /\ q_df'[s] = q_df[s]
         /\ UNCHANGED <<sheet, written, inv>>

\* C9: a finish sends the high-waste mail exactly when (input - target) /
\* input * 100 > 10 (110 over 100: none, 120 over 100: sent), and a mail that
\* fails or gets out changes nothing else: the finish goes on to
\* update_inventory either way.
C9_AlertIffHighWaste ==
  [][C9_Step]_vars

\* C10: a written quotation that is Paid is Completed with a Date_Paid, and
\* it is Paid in every later written table.
C10_PaidIsFinal ==
  [][/\ \A k \in DOMAIN written :
          written[k].Payment_Status = "Paid" =>
            written[k].Status = "Completed" /\ written[k].Date_Paid # <<>>
     /\ \A k \in DOMAIN written : \A j \in DOMAIN written' :
          (written'[j].uid = written[k].uid /\ written[k].Payment_Status = "Paid")
            => written'[j].Payment_Status = "Paid"]_vars

\* C11: a quotation written as Lost is Lost in every later written table; a
\* written quotation turns Lost only from Approved; and every written Lost
\* quotation has a Loss_Reason.
C11_LostIsTerminal ==
  [][/\ \A k \in DOMAIN written : \A j \in DOMAIN written' :
          (written'[j].uid = written[k].uid /\ written[k].Status = "Lost")
            => written'[j].Status = "Lost"
     /\ \A k \in DOMAIN written : \A j \in DOMAIN written' :
          ( /\ written'[j].uid = written[k].uid
            /\ written[k].Status # "Lost"
            /\ written'[j].Status = "Lost" ) => written[k].Status = "Approved"
     /\ \A j \in DOMAIN written' :
          written'[j].Status = "Lost" => written'[j].Loss_Reason # ""]_vars

\* the Auth_By values that name who approved: the manager whose secret was
\* typed, or the override marker when the boss password is active
ApproverMarks(pwd, boss_pwd) ==
  (IF pwd = "iris888" THEN {"Iris"} ELSE IF pwd = "tomy999" THEN {"Tomy"} ELSE {})
    \cup (IF boss_pwd = "boss777" THEN {"BOSS_BYPASS"} ELSE {})

\* C12: an approve that is written leaves the quotation with an Auth_By that
\* names the approving manager or, under the boss password, the override.
C12_ApproverRecorded ==
  [][\A s \in Sessions :
       (Commits(s) /\ op[s].kind = "approve") =>
         RowOfUid(sheet', op[s].uid).Auth_By
           \in ApproverMarks(op[s].pwd, op[s].boss_pwd)]_vars

\* the weights the pages have looked up, each with the rate they got
Looked ==
  {<<tiers.of_form.calc_wgt, tiers.of_form.min_rate>>,
   <<tiers.of_form.calc_wgt, tiers.of_form.suggested_price>>,
   <<tiers.of_a.weight, tiers.of_a.price_rate>>,
   <<tiers.of_b.weight, tiers.of_b.price_rate>>}

\* C13: for every weight the pages look up, the price floor, the calculator
\* and Miss PP give the tier value of the weight, 36.00 below 10 kg, 26.00
\* below 100 kg and 12.60 from 100 kg on, so the three agree on a weight and
\* none of them is higher for a heavier weight.
C13_TiersAgree ==
  tiers.applied =>
    /\ \A l \in Looked : l[2] = TierFloor(l[1])
    /\ \A l \in Looked : \A h \in Looked : l[1] <= h[1] => h[2] <= l[2]

\* C13 witness: Miss PP has quoted 36 pcs (9.5823 kg) at 36.00 and 40 pcs
\* (10.647 kg) at 26.00, and the form has 1000 pcs (266.175 kg) at 12.60
C13_Witness ==
  /\ tiers.applied
  /\ tiers.of_a = [weight |-> 95823, price_rate |-> 3600]
  /\ tiers.of_b = [weight |-> 106470, price_rate |-> 2600]
  /\ tiers.of_form =
       [calc_wgt |-> 2661750, min_rate |-> 1260, suggested_price |-> 1260]

\* C14: every quotation in the QUOTE table has a Weight above 0, whichever
\* way it was created; a request with a quantity or a dimension of 0 or less
\* is not stored.
C14_StoredWeightPositive ==
  \A k \in DOMAIN sheet : sheet[k].Weight > 0

\* the row is a new quotation priced as the claim says, from the inputs of
\* the Finalize Quote click o: Price = weight * rate + printing, printing =
\* colors * 360.00 + colors * 0.62 * quantity for colors > 0, else 0
PricedAsQuoted(r, o) ==
  /\ r.Status = "Pending Approval"
  /\ r.Payment_Status = "Unpaid"
  /\ r.Date_Paid = <<>>
  /\ r.Price * 100 =
       r.Weight * (o.mat_rate \div 10)
         + 100 * (IF o.print_colors > 0
                  THEN o.print_colors * 360000 + o.print_colors * 620 * o.qty
                  ELSE 0)

\* what C15 asks of one step
C15_Step ==
  /\ \A s \in Sessions :
       (Clicks(s, "create") /\ op'[s].result = "") =>
         /\ q_df'[s] = Append(q_df[s], RowOfUid(q_df'[s], op'[s].uid))
         /\ PricedAsQuoted(RowOfUid(q_df'[s], op'[s].uid), op'[s])
  /\ \A s \in Sessions :
       (Commits(s) /\ op[s].kind = "create") =>
         PricedAsQuoted(RowOfUid(sheet', op[s].uid), op[s])

\* C15: a quotation of the Quote & CRM form is stored Pending Approval,
\* Unpaid, with an empty Date_Paid and with Price = weight * rate + printing
\* cost (0.5 x 650 x 900, 1000 pcs at 12.60 without print: 266.175 kg, RM
\* 3353.805).
C15_FormQuoteStoredAsPriced ==
  [][C15_Step]_vars

\* C15 witness: the quotation of the example is stored
C15_Witness ==
  \E k \in DOMAIN sheet :
    /\ sheet[k].Auth_By = "Standard"
    /\ sheet[k].Product.print_colors = 0
    /\ sheet[k].mat_rate = 1260
    /\ sheet[k].Weight = 2661750
    /\ sheet[k].Price = 3353805

ById == {"lost", "production", "paid"}

\* C16: a Confirm Loss, Production or Confirm Paid click changes, in the
\* table it saves, the row whose button was clicked and no other row.
C16_OnlyTheClickedRow ==
  [][\A s \in Sessions :
       (pc[s] = "run" /\ op'[s].kind \in ById) =>
         /\ Len(q_df'[s]) = Len(q_df[s])
         /\ \A j \in DOMAIN q_df[s] :
              IF q_df[s][j].uid = op'[s].clicked
              THEN q_df'[s][j] # q_df[s][j]
              ELSE q_df'[s][j] = q_df[s][j]]_vars

RECURSIVE CompletedWeight(_, _)
\* the sum of the target weights of the Completed quotations of a product in
\* the first n rows of the last written table
CompletedWeight(product_name, n) ==
  IF n = 0 THEN 0
  ELSE CompletedWeight(product_name, n - 1)
         + (IF written[n].Product = product_name /\ written[n].Status = "Completed"
            THEN written[n].Weight ELSE 0)

\* C17: whenever no run is under way, the stock of the product of every
\* written quotation is the sum of the target weights of its Completed
\* quotations: each was put on stock once, and only when it was Completed.
C17_StockedExactlyOnce ==
  (\A s \in Sessions : pc[s] = "idle") =>
    \A k \in DOMAIN written :
      StockOf(inv, written[k].Product)
        = CompletedWeight(written[k].Product, Len(written))

\* C18: every Current_Weight_kg of the INVENTORY table is 0 or more, after
\* any sequence of completions and manual adjustments.
C18_StockNeverNegative ==
  \A k \in DOMAIN inv : inv[k].Current_Weight_kg >= 0

=============================================================================
